---- MODULE Spec2Model ----
(***************************************************************************)
(* State-machine models of the stateful hooks of the vibehooks collection: *)
(*   useAsyncState        (src/src/useAsyncState.ts)                       *)
(*   useCountDown         (src/unnamed/part_002)                           *)
(*   useDebouncedState    (src/unnamed/part_004)                           *)
(*   useThrottledCallback (src/src/useThrottledCallback.ts)                *)
(*   useIntervalSafe      (src/src/useIntervalSafe.ts)                     *)
(*                                                                         *)
(* Each hook has a specification of its own (SpecAsync, SpecCountDown,     *)
(* ...); the variables of the other hooks stay at their initial values.    *)
(*                                                                         *)
(* React is modelled as follows.  An event handler, a timer callback or a  *)
(* promise continuation runs to completion; the re-render its setState     *)
(* calls cause, and the effects of that render, are part of the same       *)
(* step.  A setState with an unchanged value causes no re-render.  A       *)
(* promise continuation (microtask) runs before the next timer or network  *)
(* event (macrotask).                                                      *)
(***************************************************************************)
EXTENDS Integers, Sequences, FiniteSets, TLC

VARIABLES
    \* ---- useAsyncState
    state,               \* AsyncState<T>: the hook's React state
    lastRequestRef,      \* lastRequestRef.current
    abortControllerRef,  \* abortControllerRef.current: a controller or Null
    aborted,             \* the aborted signals a fetch is still pending on
    timeouts,            \* the pending setTimeout(..., timeout) timers
    req,                 \* the execute() calls made so far, and where each stands
    nReq,                \* number of execute() calls made
    mounted,             \* the component is mounted
    cancelled,           \* history: requests in progress at a later execute/reset/unmount
    retryNull,           \* history: number of retry() calls that returned null at once
    \* ---- useCountDown
    cd,
    \* ---- useDebouncedState
    db,
    \* ---- useThrottledCallback
    th,
    \* ---- useIntervalSafe
    iv,
    \* ---- useTimeout
    to,
    \* ---- useToggle
    tg,
    \* ---- useLocalStorage
    ls,
    \* ---- pageVisibilityStore, usePageVisibility
    vis,
    \* ---- systemLanguageStore, userLanguageStore, usePreferredLanguage
    lng,
    \* ---- systemThemeStore, userThemeStore, usePreferredTheme
    thm,
    \* ---- useBatteryStatus
    bat,
    \* ---- hooks over a browser capability that may be absent
    cap

asyncVars == <<state, lastRequestRef, abortControllerRef, aborted, timeouts,
               req, nReq, mounted, cancelled, retryNull>>
moreVars == <<to, tg, ls, vis, lng, thm, bat, cap>>
vars == <<state, lastRequestRef, abortControllerRef, aborted, timeouts,
          req, nReq, mounted, cancelled, retryNull, cd, db, th, iv,
          to, tg, ls, vis, lng, thm, bat, cap>>

Null == "null"

\* abortControllerRef.current = null, lastRequestRef.current = null
NoController == <<0, 0>>
NoLastRequest == [set |-> FALSE, retries |-> 0]

Max(a, b) == IF a >= b THEN a ELSE b

(***************************************************************************)
(*                            useAsyncState                                *)
(***************************************************************************)

\* Bounds of the model.
MaxRequests == 2     \* execute()/retry() calls in one behaviour
MaxRetries == 1      \* largest config.retries
MaxRetryNull == 1    \* retry() calls counted when there is no last request

Requests == 1..MaxRequests

\* A controller is named by the request and the attempt that created it.
Controllers == Requests \X (1..(MaxRetries + 1))

\* Error.name / kind of the errors performFetch can throw.
AbortError == "AbortError"
NonAbortErrors == {"HttpError", "NetworkError", "Timeout"}

\* The data a successful response of request r carries.
ResponseData(r) == "data" \o ToString(r)

\* options.initialData (default null).
initialData == Null

\* React.useState initial value of the hook.
InitialState ==
    [data |-> initialData, error |-> Null, isLoading |-> FALSE,
     isSuccess |-> FALSE, isError |-> FALSE, isIdle |-> TRUE]

NoRequest ==
    [pc |-> "none", attempt |-> 0, retries |-> 0, outcome |-> Null,
     result |-> "pending", onErrorCalls |-> 0]

\* setState of an unmounted component is ignored by React.
SetState(new) == IF mounted THEN new ELSE state

\* The requests whose execute() promise has not settled.
InProgress == {r \in Requests : req[r].pc \in {"fetching", "waiting"}}

\* The controller of the attempt request r is making.
CtrlOf(r) == <<r, req[r].attempt>>

\* A fetch whose signal is aborted has rejected; the continuation of the
\* awaiting performFetch is a microtask that runs before any other event.
AbortPending(r) == req[r].pc = "fetching" /\ CtrlOf(r) \in aborted
MicrotaskPending == \E r \in Requests : AbortPending(r)

\* A fetch is pending on the signal of controller c.
Listening(c) == c # NoController /\ req[c[1]].pc = "fetching" /\ CtrlOf(c[1]) = c

\* abortControllerRef.current?.abort(): it rejects the fetch pending on the
\* signal; on a signal no fetch is pending on, it does nothing.
AbortCurrent ==
    IF Listening(abortControllerRef) THEN aborted \cup {abortControllerRef} ELSE aborted

\* performFetch, catch block: retry after retryDelay, or report and rethrow.
WillRetry(q, e) == q.attempt <= q.retries /\ e # AbortError

PerformFetchCatch(q, e) ==
    IF WillRetry(q, e)
    THEN [q EXCEPT !.pc = "waiting"]
    ELSE [q EXCEPT !.pc = "done", !.outcome = e, !.result = Null,
                   !.onErrorCalls = @ + 1]

\* The test of execute's catch block: the error is stored unless this holds.
ExecuteCatchReturnsEarly(e) == e # AbortError

\* execute, catch block (reached when performFetch rethrows).
ExecuteCatch(q, e) ==
    IF WillRetry(q, e) THEN state
    ELSE IF ExecuteCatchReturnsEarly(e) THEN state
    ELSE SetState([state EXCEPT !.error = e, !.isLoading = FALSE,
                                !.isSuccess = FALSE, !.isError = TRUE])

\* execute(url, config) up to the first await of performFetch: abort the
\* current controller, record the request, set the loading state, create a
\* new controller, arm the timeout timer and issue the fetch.
DoExecute(n) ==
    LET r == nReq + 1 IN
    /\ nReq < MaxRequests
    /\ aborted' = AbortCurrent
    /\ cancelled' = cancelled \cup InProgress
    /\ lastRequestRef' = [set |-> TRUE, retries |-> n]
    /\ state' = SetState([state EXCEPT !.isLoading = TRUE, !.isSuccess = FALSE,
                                       !.isError = FALSE, !.isIdle = FALSE,
                                       !.error = Null])
    /\ abortControllerRef' = <<r, 1>>
    /\ timeouts' = timeouts \cup {<<r, 1>>}
    /\ req' = [req EXCEPT ![r] = [NoRequest EXCEPT !.pc = "fetching",
                                                   !.attempt = 1, !.retries = n]]
    /\ nReq' = r

Execute(n) ==
    /\ mounted
    /\ DoExecute(n)
    /\ UNCHANGED <<mounted, retryNull, cd, db, th, iv, moreVars>>

\* retry(): null when there is no last request, else execute it again.
RetryNoRequest ==
    /\ mounted
    /\ lastRequestRef = NoLastRequest
    /\ retryNull < MaxRetryNull
    /\ retryNull' = retryNull + 1
    /\ UNCHANGED <<state, lastRequestRef, abortControllerRef, aborted, timeouts,
                   req, nReq, mounted, cancelled, cd, db, th, iv, moreVars>>

Retry ==
    /\ mounted
    /\ lastRequestRef # NoLastRequest
    /\ DoExecute(lastRequestRef.retries)
    /\ UNCHANGED <<mounted, retryNull, cd, db, th, iv, moreVars>>

\* reset()
Reset ==
    /\ mounted
    /\ aborted' = AbortCurrent
    /\ cancelled' = cancelled \cup InProgress
    /\ lastRequestRef' = NoLastRequest
    /\ state' = SetState(InitialState)
    /\ UNCHANGED <<abortControllerRef, timeouts, req, nReq, mounted, retryNull,
                   cd, db, th, iv, moreVars>>

\* mutate(newData)
Mutate ==
    /\ mounted
    /\ state' = SetState([state EXCEPT !.data = "mutated"])
    /\ UNCHANGED <<lastRequestRef, abortControllerRef, aborted, timeouts, req,
                   nReq, mounted, cancelled, retryNull, cd, db, th, iv, moreVars>>

\* The cleanup of the unmount effect.
Unmount ==
    /\ mounted
    /\ mounted' = FALSE
    /\ aborted' = AbortCurrent
    /\ cancelled' = cancelled \cup InProgress
    /\ UNCHANGED <<state, lastRequestRef, abortControllerRef, timeouts, req, nReq,
                   retryNull, cd, db, th, iv, moreVars>>

\* The response arrives with response.ok and its body is read: the callbacks
\* run, performFetch returns the data and execute stores it.
FetchSucceeds(r) ==
    /\ ~MicrotaskPending
    /\ req[r].pc = "fetching"
    /\ req' = [req EXCEPT ![r].pc = "done", ![r].outcome = "ok",
                          ![r].result = ResponseData(r)]
    /\ state' = SetState([data |-> ResponseData(r), error |-> Null,
                          isLoading |-> FALSE, isSuccess |-> TRUE,
                          isError |-> FALSE, isIdle |-> FALSE])
    /\ UNCHANGED <<lastRequestRef, abortControllerRef, aborted, timeouts, nReq,
                   mounted, cancelled, retryNull, cd, db, th, iv, moreVars>>

\* The fetch fails by itself: a response that is not ok, or a network error.
FetchFails(r, e) ==
    /\ ~MicrotaskPending
    /\ req[r].pc = "fetching"
    /\ e \in {"HttpError", "NetworkError"}
    /\ req' = [req EXCEPT ![r] = PerformFetchCatch(req[r], e)]
    /\ state' = ExecuteCatch(req[r], e)
    /\ UNCHANGED <<lastRequestRef, abortControllerRef, aborted, timeouts, nReq,
                   mounted, cancelled, retryNull, cd, db, th, iv, moreVars>>

\* The continuation of a fetch whose signal was aborted: it rejects with an
\* AbortError.
AbortSettles(r) ==
    /\ AbortPending(r)
    /\ req' = [req EXCEPT ![r] = PerformFetchCatch(req[r], AbortError)]
    /\ state' = ExecuteCatch(req[r], AbortError)
    /\ aborted' = aborted \ {CtrlOf(r)}
    /\ UNCHANGED <<lastRequestRef, abortControllerRef, timeouts, nReq,
                   mounted, cancelled, retryNull, cd, db, th, iv, moreVars>>

\* The timeout timer of attempt c fires (it is never cleared): it aborts
\* whatever controller is current and rejects the timeout promise of c.  If
\* the attempt is still racing, the race rejects: with the timeout error, or,
\* when the controller aborted is the attempt's own, with either error (the
\* fetch and the timeout promise are rejected in the same task).
TimeoutFires(c, e) ==
    LET r == c[1] IN
    /\ ~MicrotaskPending
    /\ c \in timeouts
    /\ timeouts' = timeouts \ {c}
    /\ aborted' = AbortCurrent \ {c}
    /\ IF req[r].pc = "fetching" /\ CtrlOf(r) = c
       THEN /\ e \in (IF abortControllerRef = c THEN {AbortError, "Timeout"}
                                                ELSE {"Timeout"})
            /\ req' = [req EXCEPT ![r] = PerformFetchCatch(req[r], e)]
            /\ state' = ExecuteCatch(req[r], e)
       ELSE /\ e = "Timeout"
            /\ UNCHANGED <<req, state>>
    /\ UNCHANGED <<lastRequestRef, abortControllerRef, nReq, mounted, cancelled,
                   retryNull, cd, db, th, iv, moreVars>>

\* The retryDelay of request r has passed: performFetch calls itself for the
\* next attempt, which installs a new controller and issues a fetch.
RetryDelayElapses(r) ==
    /\ ~MicrotaskPending
    /\ req[r].pc = "waiting"
    /\ req' = [req EXCEPT ![r].pc = "fetching", ![r].attempt = @ + 1]
    /\ abortControllerRef' = <<r, req[r].attempt + 1>>
    /\ timeouts' = timeouts \cup {<<r, req[r].attempt + 1>>}
    /\ UNCHANGED <<state, lastRequestRef, aborted, nReq, mounted, cancelled,
                   retryNull, cd, db, th, iv, moreVars>>

AsyncInit ==
    /\ state = InitialState
    /\ lastRequestRef = NoLastRequest
    /\ abortControllerRef = NoController
    /\ aborted = {}
    /\ timeouts = {}
    /\ req = [r \in Requests |-> NoRequest]
    /\ nReq = 0
    /\ mounted = TRUE
    /\ cancelled = {}
    /\ retryNull = 0

AsyncNext ==
    \/ \E n \in 0..MaxRetries : Execute(n)
    \/ RetryNoRequest
    \/ Retry
    \/ Reset
    \/ Mutate
    \/ Unmount
    \/ \E r \in Requests : FetchSucceeds(r)
    \/ \E r \in Requests, e \in NonAbortErrors : FetchFails(r, e)
    \/ \E r \in Requests : AbortSettles(r)
    \/ \E c \in Controllers, e \in {AbortError, "Timeout"} : TimeoutFires(c, e)
    \/ \E r \in Requests : RetryDelayElapses(r)

(***************************************************************************)
(*                             useCountDown                                *)
(*                                                                         *)
(* cd is the hook instance: its React state (count, isPaused), its refs    *)
(* (endTimeRef, initialEndTimeRef, completedRef, intervalIdRef) and the    *)
(* interval timer.  The hook reads the clock only in endTime - Date.now()  *)
(* and Date.now() + count, so times are kept relative to the clock:        *)
(*   endIn        = endTimeRef.current - Date.now()                        *)
(*   initialEndIn = initialEndTimeRef.current - Date.now()                 *)
(*   fireIn       = time until the interval timer fires next               *)
(* and a millisecond passing decreases each.  Both differences are only    *)
(* read under Math.max(..., 0), so they are kept at 0 once they are below. *)
(* stableOptions says whether the caller passes the same options object on *)
(* every render (then tick keeps its identity) or a new one (then tick     *)
(* changes on every render and the timer effect runs again after each).    *)
(***************************************************************************)

CdMaxEnd == 3        \* largest endTime / newEndTime, from the clock
CdMaxInterval == 2   \* largest options.interval
CdMaxCalls == 3      \* the history counters stop counting here

CdCap(n) == IF n < CdMaxCalls THEN n + 1 ELSE n

\* clearTimer()
clearTimer(s) == [s EXCEPT !.intervalIdRef = FALSE, !.fireIn = 0]

\* The guard of the completion branch of tick.
tickCompletes(s, remaining) == remaining = 0 /\ ~s.completedRef

\* tick()
tick(s) ==
    LET remaining == Max(s.endIn, 0)
        s1 == [s EXCEPT !.count = remaining, !.tickCalls = CdCap(@)]
    IN  IF tickCompletes(s, remaining)
        THEN [clearTimer([s1 EXCEPT !.completedRef = TRUE])
                 EXCEPT !.completeCalls = CdCap(@)]
        ELSE s1

\* window.setInterval(tick, interval)
cdSetInterval(s) == [s EXCEPT !.intervalIdRef = TRUE, !.fireIn = s.interval]

\* The body of the timer effect (deps: interval, isPaused, tick).
timerEffect(s) ==
    IF s.isPaused THEN s
    ELSE cdSetInterval(tick(clearTimer([s EXCEPT !.completedRef = FALSE])))

\* The effect runs again: the cleanup of its last run (clearTimer; a run
\* that returned without one left no timer), then its body.
runTimerEffect(s) == timerEffect(clearTimer(s))

\* The timer effect runs again after a render in which isPaused changed or
\* tick has a new identity (interval does not change).
cdDepsChanged(old, new) == new.isPaused # old.isPaused \/ ~new.stableOptions

\* The render that follows a handler which took the hook from old to new.
\* React renders when count or isPaused changed (or the parent renders:
\* forced).  The tick of the effect may set count once more, which is one
\* more render; the clock has not moved, so the next tick changes nothing.
cdCommit(old, new, forced) ==
    LET rendered == forced \/ new.count # old.count \/ new.isPaused # old.isPaused
    IN  IF ~(rendered /\ cdDepsChanged(old, new)) THEN new
        ELSE LET e == runTimerEffect(new)
             IN  IF e.count # new.count /\ ~new.stableOptions
                 THEN runTimerEffect(e) ELSE e

\* The state after mount: useState's initial count, then the timer effect.
cdMounted(endIn, interval, stable) ==
    LET s0 == [endIn |-> endIn, initialEndIn |-> endIn,
               count |-> Max(endIn, 0), isPaused |-> FALSE,
               completedRef |-> FALSE, intervalIdRef |-> FALSE, fireIn |-> 0,
               interval |-> interval, stableOptions |-> stable,
               completeCalls |-> 0, tickCalls |-> 0, resetSeen |-> FALSE,
               lastOp |-> "mount", prevCount |-> Max(endIn, 0),
               resumed |-> "no", resumeCount |-> 0, sinceResume |-> 0]
        e == timerEffect(s0)
    IN  IF e.count # s0.count /\ ~stable THEN runTimerEffect(e) ELSE e

CdInit ==
    \E endIn \in 0..CdMaxEnd, interval \in 1..CdMaxInterval, stable \in BOOLEAN :
        cd = cdMounted(endIn, interval, stable)

\* History of the last resume(): the count it resumed from, the time that
\* has passed since, and whether the countdown has completed since (then
\* the time stops).  The timer effect that follows resume() clears
\* completedRef, so it is set again only by a tick that completes.
CdSinceResume(op, s) ==
    CASE op = "resume" ->
            [s EXCEPT !.resumed = IF s.completedRef THEN "done" ELSE "running",
                      !.resumeCount = cd.count, !.sinceResume = 0]
      [] op \in {"pause", "reset"} ->
            [s EXCEPT !.resumed = "no", !.resumeCount = 0, !.sinceResume = 0]
      [] OTHER ->
            IF cd.resumed # "running" THEN s
            ELSE [s EXCEPT !.resumed = IF s.completedRef THEN "done" ELSE "running",
                           !.sinceResume =
                               IF op = "advance" /\ @ < CdMaxEnd + CdMaxInterval
                               THEN @ + 1 ELSE @]

\* History of a step: the operation, and the count before it.
CdStep(op, s) == CdSinceResume(op, [s EXCEPT !.lastOp = op, !.prevCount = cd.count])

\* A millisecond passes; a due interval timer fires first.
CdAdvance ==
    /\ ~cd.intervalIdRef \/ cd.fireIn > 0
    /\ cd' = CdStep("advance",
                    [cd EXCEPT !.endIn = Max(@ - 1, 0),
                               !.initialEndIn = Max(@ - 1, 0),
                               !.fireIn = Max(@ - 1, 0)])
    /\ UNCHANGED <<moreVars, asyncVars, db, th, iv>>

\* The interval timer fires and calls tick.
CdTick ==
    /\ cd.intervalIdRef
    /\ cd.fireIn = 0
    /\ LET t == tick(cd)
           s1 == IF t.intervalIdRef THEN [t EXCEPT !.fireIn = t.interval] ELSE t
       IN  cd' = CdStep("tick", cdCommit(cd, s1, FALSE))
    /\ UNCHANGED <<moreVars, asyncVars, db, th, iv>>

\* controls.pause(): its closure is the first render's, where isPaused is
\* false, so the early return is never taken.
CdPause ==
    /\ cd' = CdStep("pause", cdCommit(cd, clearTimer([cd EXCEPT !.isPaused = TRUE]), FALSE))
    /\ UNCHANGED <<moreVars, asyncVars, db, th, iv>>

\* controls.resume(): endTimeRef.current = Date.now() + count
CdResume ==
    /\ cd.isPaused
    /\ cd' = CdStep("resume",
                    cdCommit(cd, [cd EXCEPT !.endIn = cd.count, !.isPaused = FALSE], FALSE))
    /\ UNCHANGED <<moreVars, asyncVars, db, th, iv>>

\* controls.reset(newEndTime) with nextEndTime = newEndTime ?? initialEndTimeRef
cdReset(s, nextEndIn) ==
    [clearTimer(s) EXCEPT !.completedRef = FALSE, !.endIn = nextEndIn,
                          !.count = Max(nextEndIn, 0), !.isPaused = FALSE]

\* History: a reset starts a new countdown.
CdNewCountdown(s) == [s EXCEPT !.completeCalls = 0, !.tickCalls = 0, !.resetSeen = TRUE]

CdReset ==
    /\ cd' = CdStep("reset", cdCommit(cd, cdReset(CdNewCountdown(cd), cd.initialEndIn), FALSE))
    /\ UNCHANGED <<moreVars, asyncVars, db, th, iv>>

CdResetTo(newEndIn) ==
    /\ cd' = CdStep("reset", cdCommit(cd, cdReset(CdNewCountdown(cd), newEndIn), FALSE))
    /\ UNCHANGED <<moreVars, asyncVars, db, th, iv>>

\* The parent renders the component again.
CdRerender ==
    /\ cd' = CdStep("render", cdCommit(cd, cd, TRUE))
    /\ UNCHANGED <<moreVars, asyncVars, db, th, iv>>

CdNext ==
    \/ CdAdvance
    \/ CdTick
    \/ CdPause
    \/ CdResume
    \/ CdReset
    \/ \E e \in 0..CdMaxEnd : CdResetTo(e)
    \/ CdRerender

(***************************************************************************)
(*                           useDebouncedState                             *)
(*                                                                         *)
(* db is the hook instance: value and debouncedValue (React state), the    *)
(* delay option, the timer of timeoutRef (pending, deadline, the value its *)
(* callback closed over) and the clock.  A timer fires when it is due.     *)
(***************************************************************************)

DbMaxDelay == 2      \* largest options.delay
DbMaxTime == 5       \* the clock stops here
DbValues == {"a", "b", "c"}

\* Mutant of dbEffect: the timer of the last run is not cleared, so it is the
\* one that fires.
dbEffectKeepsTimer(s) ==
    IF s.pending THEN s
    ELSE [s EXCEPT !.pending = TRUE, !.deadline = s.now + s.delay, !.timerValue = s.value]

\* setTimeout(() => setDebouncedValue(value), delay), after clearing the
\* timer of the last run: the effect of [value, delay].
dbEffect(s) ==
    [s EXCEPT !.pending = TRUE, !.deadline = s.now + s.delay, !.timerValue = s.value]

dbMounted(initialValue, delay) ==
    dbEffect([now |-> 0, value |-> initialValue, debouncedValue |-> initialValue,
              delay |-> delay, pending |-> FALSE, deadline |-> 0,
              timerValue |-> initialValue, valueSince |-> 0, changedAt |-> 0,
              lastOp |-> "mount", prevDebounced |-> initialValue])

DbInit == \E d \in 0..DbMaxDelay : db = dbMounted("a", d)

\* History of a step: the operation and debouncedValue before it.
DbStep(op, s) == [s EXCEPT !.lastOp = op, !.prevDebounced = db.debouncedValue]

\* setValue(v) with a new value: render, and the effect runs again.
DbSetValue(v) ==
    /\ v # db.value
    /\ db' = DbStep("setValue", dbEffect([db EXCEPT !.value = v, !.valueSince = db.now,
                                                    !.changedAt = db.now]))
    /\ UNCHANGED <<moreVars, asyncVars, cd, th, iv>>

\* The caller renders the hook with another delay: the effect runs again.
DbSetDelay(d) ==
    /\ d # db.delay
    /\ db' = DbStep("setDelay", dbEffect([db EXCEPT !.delay = d, !.changedAt = db.now]))
    /\ UNCHANGED <<moreVars, asyncVars, cd, th, iv>>

\* The timer fires: setDebouncedValue(value) with the value it closed over.
DbTimerFires ==
    /\ db.pending
    /\ db.now >= db.deadline
    /\ db' = DbStep("fire", [db EXCEPT !.pending = FALSE, !.debouncedValue = db.timerValue])
    /\ UNCHANGED <<moreVars, asyncVars, cd, th, iv>>

DbAdvance ==
    /\ db.now < DbMaxTime
    /\ ~db.pending \/ db.now < db.deadline
    /\ db' = DbStep("advance", [db EXCEPT !.now = @ + 1])
    /\ UNCHANGED <<moreVars, asyncVars, cd, th, iv>>

DbNext ==
    \/ \E v \in DbValues : DbSetValue(v)
    \/ \E d \in 0..DbMaxDelay : DbSetDelay(d)
    \/ DbTimerFires
    \/ DbAdvance

(***************************************************************************)
(*                          useThrottledCallback                           *)
(*                                                                         *)
(* th is the hook instance: lastCallRef, the delay option, the clock and   *)
(* the history of the invocations of the throttled function.  Date.now()   *)
(* is a time since the epoch, far larger than any delay: the clock starts  *)
(* at ThMaxDelay or later.                                                 *)
(***************************************************************************)

ThMaxDelay == 2      \* largest options.delay
ThMaxCalls == 4      \* invocations in one behaviour
ThMaxAdvance == 5    \* the clock moves at most this far

\* Mutant of thMayRun: the window is one millisecond short.
thMayRunEarly(now, lastCall, delay) == now - lastCall >= delay - 1

\* The test of the throttled function.
thMayRun(now, lastCall, delay) == now - lastCall >= delay

\* The throttled function, invoked as invocation number id.
thInvoke(s, id) ==
    IF thMayRun(s.now, s.lastCallRef, s.delay)
    THEN [s EXCEPT !.lastCallRef = s.now,
                   !.executions = Append(@, [at |-> s.now, delay |-> s.delay, id |-> id])]
    ELSE [s EXCEPT !.dropped = @ \cup {id}]

ThInit ==
    \E d \in 0..ThMaxDelay, t0 \in ThMaxDelay..(ThMaxDelay + 1) :
        th = [now |-> t0, start |-> t0, lastCallRef |-> 0, delay |-> d, invocations |-> 0,
              executions |-> <<>>, dropped |-> {}]

ThInvoke ==
    /\ th.invocations < ThMaxCalls
    /\ th' = thInvoke([th EXCEPT !.invocations = @ + 1], th.invocations + 1)
    /\ UNCHANGED <<moreVars, asyncVars, cd, db, iv>>

\* The caller renders the hook with another delay.
ThSetDelay(d) ==
    /\ d # th.delay
    /\ th' = [th EXCEPT !.delay = d]
    /\ UNCHANGED <<moreVars, asyncVars, cd, db, iv>>

ThAdvance ==
    /\ th.now < th.start + ThMaxAdvance
    /\ th' = [th EXCEPT !.now = @ + 1]
    /\ UNCHANGED <<moreVars, asyncVars, cd, db, iv>>

ThNext ==
    \/ ThInvoke
    \/ \E d \in 0..ThMaxDelay : ThSetDelay(d)
    \/ ThAdvance

(***************************************************************************)
(*                            useIntervalSafe                              *)
(*                                                                         *)
(* iv is the hook instance: isActive and executions (React state),         *)
(* intervalRef (an interval timer is scheduled), the options, and the      *)
(* delay of the first render: reset is memoized with no dependencies, so   *)
(* the start it calls is the first render's.  calls counts the executions  *)
(* of the callback since the code last restarted executions.               *)
(***************************************************************************)

IvMaxLimit == 3      \* largest maxExecutions
IvMaxCount == 4      \* executions of an interval without limit
IvDelays == {Null, "100ms", "200ms"}

\* cancel()
ivCancel(s) ==
    IF s.intervalRef THEN [s EXCEPT !.intervalRef = FALSE, !.isActive = FALSE] ELSE s

\* start returns after the immediate execution when this holds.
ivImmediateOnly(s) == s.hasMax /\ s.maxExecutions = 1

\* start(), as memoized in a render whose delay is d.
ivStart(s, d) ==
    LET s1 == ivCancel(s) IN
    IF d = Null THEN s1
    ELSE IF s1.executeImmediately
    THEN LET s2 == [s1 EXCEPT !.calls = 1, !.executions = 1]
         IN  IF ivImmediateOnly(s2) THEN s2
             ELSE [s2 EXCEPT !.isActive = TRUE, !.intervalRef = TRUE]
    ELSE [s1 EXCEPT !.calls = 0, !.executions = 0,
                    !.isActive = TRUE, !.intervalRef = TRUE]

\* The limit test of the interval callback.
ivLimitReached(s, newCount) == s.hasMax /\ newCount >= s.maxExecutions

\* The interval callback: the updater passed to setExecutions.
ivTick(s) ==
    LET newCount == s.executions + 1 IN
    IF ivLimitReached(s, newCount)
    THEN [ivCancel(s) EXCEPT !.executions = newCount]
    ELSE [s EXCEPT !.calls = @ + 1, !.executions = newCount]

\* reset(): cancel, setExecutions(0), and the start of the first render.
ivReset(s) == ivStart([ivCancel(s) EXCEPT !.executions = 0, !.calls = 0], s.delay0)

\* The mount effect (deps: startOnMount, start, cancel).
ivMountEffect(s) == IF s.startOnMount THEN ivStart(s, s.delay) ELSE s

IvInit ==
    \E d \in IvDelays, som \in BOOLEAN, imm \in BOOLEAN, hm \in BOOLEAN,
       mx \in 0..IvMaxLimit :
        iv = ivMountEffect(
               [delay |-> d, delay0 |-> d, startOnMount |-> som,
                executeImmediately |-> imm, hasMax |-> hm,
                maxExecutions |-> IF hm THEN mx ELSE 0,
                intervalRef |-> FALSE, isActive |-> FALSE, executions |-> 0,
                calls |-> 0, lastOp |-> "mount"])

IvStart ==
    /\ iv' = [ivStart(iv, iv.delay) EXCEPT !.lastOp = "start"]
    /\ UNCHANGED <<moreVars, asyncVars, cd, db, th>>

IvCancel ==
    /\ iv' = [ivCancel(iv) EXCEPT !.lastOp = "cancel"]
    /\ UNCHANGED <<moreVars, asyncVars, cd, db, th>>

IvReset ==
    /\ iv' = [ivReset(iv) EXCEPT !.lastOp = "reset"]
    /\ UNCHANGED <<moreVars, asyncVars, cd, db, th>>

\* The interval timer fires.
IvTick ==
    /\ iv.intervalRef
    /\ iv.executions < IvMaxCount
    /\ iv' = [ivTick(iv) EXCEPT !.lastOp = "tick"]
    /\ UNCHANGED <<moreVars, asyncVars, cd, db, th>>

\* The caller renders the hook with another delay: start is memoized anew
\* and the mount effect runs again, its cleanup (cancel) first.
IvSetDelay(d) ==
    /\ d # iv.delay
    /\ iv' = [ivMountEffect(ivCancel([iv EXCEPT !.delay = d])) EXCEPT !.lastOp = "setDelay"]
    /\ UNCHANGED <<moreVars, asyncVars, cd, db, th>>

IvNext ==
    \/ IvStart
    \/ IvCancel
    \/ IvReset
    \/ IvTick
    \/ \E d \in IvDelays : IvSetDelay(d)

(***************************************************************************)
(*                             useTimeout                                  *)
(* Time is relative: a pending timer carries the time left until it fires. *)
(* A timer that is due fires before time passes.                           *)
(***************************************************************************)

ToMaxDelay == 2
\* delay: null
ToNoDelay == -1
ToDelays == {ToNoDelay} \cup 1..ToMaxDelay

\* The timer ids of setTimeout: a fresh id for every timer.
toFreshId(s) == CHOOSE i \in 1..(Cardinality(s.timers) + 1) :
                    \A t \in s.timers : t.id # i

\* cancel()
toCancel(s) ==
    IF s.timeoutRef # 0
    THEN [s EXCEPT !.timers = {t \in s.timers : t.id # s.timeoutRef},
                   !.timeoutRef = 0, !.isActive = FALSE]
    ELSE s

toDelayIsNull(d) == d = ToNoDelay

\* start(), memoized over the delay d
toStart(s, d) ==
    LET c == toCancel(s)
        i == toFreshId(c)
    IN  IF toDelayIsNull(d) THEN c
        ELSE [c EXCEPT !.isActive = TRUE, !.timeoutRef = i,
                       !.timers = c.timers \cup {[id |-> i, fireIn |-> d]}]

\* reset(), memoized over cancel and start
toReset(s, d) == toStart(toCancel(s), d)

\* The callback handed to setTimeout, for the timer t.
toFire(s, t) == [s EXCEPT !.timers = s.timers \ {t}, !.timeoutRef = 0,
                          !.isActive = FALSE]

\* The mount effect: if (startOnMount) start(); its cleanup is cancel.
toMountEffect(s) == IF s.startOnMount THEN toStart(s, s.delay) ELSE s

\* History: a start or reset with a delay that is not null owes one execution,
\* startDelay after it was called; sinceStart is the time since then. A delay
\* of null owes none.
toOwe(s, d) == IF toDelayIsNull(d)
               THEN [s EXCEPT !.owed = FALSE]
               ELSE [s EXCEPT !.owed = TRUE, !.startDelay = d, !.sinceStart = 0]

toMounted(delay, startOnMount) ==
    LET s0 == [delay |-> delay, startOnMount |-> startOnMount, timeoutRef |-> 0,
               timers |-> {}, isActive |-> FALSE, mounted |-> TRUE,
               owed |-> FALSE, startDelay |-> 0, sinceStart |-> 0,
               firedOwed |-> TRUE, firedAfter |-> 0, lastOp |-> "mount"]
    IN  IF startOnMount THEN toOwe(toMountEffect(s0), delay) ELSE s0

ToInit ==
    \E d \in ToDelays, som \in BOOLEAN : to = toMounted(d, som)

ToOthers == <<asyncVars, cd, db, th, iv, tg, ls, vis, lng, thm, bat, cap>>

ToStart ==
    /\ to.mounted
    /\ to' = [toOwe(toStart(to, to.delay), to.delay) EXCEPT !.lastOp = "start"]
    /\ UNCHANGED ToOthers

ToReset ==
    /\ to.mounted
    /\ to' = [toOwe(toReset(to, to.delay), to.delay) EXCEPT !.lastOp = "reset"]
    /\ UNCHANGED ToOthers

ToCancel ==
    /\ to.mounted
    /\ to' = [toCancel(to) EXCEPT !.owed = FALSE, !.lastOp = "cancel"]
    /\ UNCHANGED ToOthers

\* A pending timer is due and runs its callback.
ToTimerFires ==
    /\ \E t \in to.timers :
         /\ t.fireIn = 0
         /\ to' = [toFire(to, t) EXCEPT !.firedOwed = to.owed,
                                        !.firedAfter = to.sinceStart,
                                        !.owed = FALSE, !.lastOp = "fire"]
    /\ UNCHANGED ToOthers

\* One unit of time passes.
ToAdvance ==
    /\ to.timers # {}
    /\ \A t \in to.timers : t.fireIn > 0
    /\ to' = [to EXCEPT !.timers = {[t EXCEPT !.fireIn = @ - 1] : t \in to.timers},
                        !.sinceStart = @ + 1, !.lastOp = "advance"]
    /\ UNCHANGED ToOthers

\* The caller renders the hook with another delay: start is memoized anew,
\* so the mount effect is cleaned up (cancel) and runs again.
ToSetDelay(d) ==
    /\ to.mounted
    /\ d # to.delay
    /\ LET s == toMountEffect(toCancel([to EXCEPT !.delay = d]))
       IN  to' = [(IF to.startOnMount \/ toDelayIsNull(d) THEN toOwe(s, d) ELSE s)
                     EXCEPT !.lastOp = "setDelay"]
    /\ UNCHANGED ToOthers

\* Unmount: the cleanup of the mount effect.
ToUnmount ==
    /\ to.mounted
    /\ to' = [toCancel(to) EXCEPT !.mounted = FALSE, !.owed = FALSE,
                                  !.lastOp = "unmount"]
    /\ UNCHANGED ToOthers

ToNext ==
    \/ ToStart
    \/ ToReset
    \/ ToCancel
    \/ ToTimerFires
    \/ ToAdvance
    \/ \E d \in ToDelays : ToSetDelay(d)
    \/ ToUnmount

(***************************************************************************)
(*                              useToggle                                  *)
(* handleToggle queues a state updater; React applies the queued updaters  *)
(* in order when it renders the component next.                            *)
(***************************************************************************)

TgMaxCalls == 5
TgMaxBatch == 2

\* { defaultValue = false }: the default of an omitted option
tgDefaultValue(hasDefault, defaultValue) ==
    IF hasDefault THEN defaultValue ELSE FALSE

\* An updater that reads the status of the render that made it.
tgUpdaterOfRender(prev, rendered) == ~rendered

\* prev => !prev
tgUpdater(prev, rendered) == ~prev

\* React applies n queued updaters, made by a render that showed `rendered`.
RECURSIVE tgApply(_, _, _)
tgApply(status, n, rendered) ==
    IF n = 0 THEN status
    ELSE tgApply(tgUpdater(status, rendered), n - 1, rendered)

\* useState(defaultValue): the initial state is that of the first render.
tgMounted(hasDefault, defaultValue) ==
    [hasDefault |-> hasDefault,
     defaultValue |-> defaultValue,
     propHasDefault |-> hasDefault,
     propDefaultValue |-> defaultValue,
     status |-> tgDefaultValue(hasDefault, defaultValue),
     queue |-> 0,
     calls |-> 0]

TgInit ==
    \E hd \in BOOLEAN, dv \in BOOLEAN :
        /\ (~hd => ~dv)
        /\ tg = tgMounted(hd, dv)

TgOthers == <<asyncVars, cd, db, th, iv, to, ls, vis, lng, thm, bat, cap>>

\* handleToggle()
TgHandleToggle ==
    /\ tg.calls < TgMaxCalls
    /\ tg.queue < TgMaxBatch
    /\ tg' = [tg EXCEPT !.queue = @ + 1, !.calls = @ + 1]
    /\ UNCHANGED TgOthers

\* React renders the component after the handlers of an event.
TgRender ==
    /\ tg.queue > 0
    /\ tg' = [tg EXCEPT !.status = tgApply(tg.status, tg.queue, tg.status),
                        !.queue = 0]
    /\ UNCHANGED TgOthers

\* The parent renders the hook with another defaultValue.
TgSetDefaultValue(hd, dv) ==
    /\ (~hd => ~dv)
    /\ <<hd, dv>> # <<tg.propHasDefault, tg.propDefaultValue>>
    /\ tg' = [tg EXCEPT !.propHasDefault = hd, !.propDefaultValue = dv,
                        !.status = tgApply(tg.status, tg.queue, tg.status),
                        !.queue = 0]
    /\ UNCHANGED TgOthers

TgNext ==
    \/ TgHandleToggle
    \/ TgRender
    \/ \E hd \in BOOLEAN, dv \in BOOLEAN : TgSetDefaultValue(hd, dv)

(***************************************************************************)
(*                            useLocalStorage                              *)
(* The environments a render can find: no window (server), a window with   *)
(* no localStorage, a window whose localStorage property throws when read  *)
(* (storage access denied to the document), a localStorage whose methods   *)
(* throw, and a working localStorage.                                      *)
(***************************************************************************)

LsEnvs == {"server", "noStorage", "denied", "failing", "available"}
LsKey == "k"
LsKeys == {LsKey, "other"}
LsValues == {"a", "b"}
LsAbsent == "<absent>"
LsFallbacks == {"undefined", "fb"}

\* JSON.stringify(value) of a string value; of undefined it is undefined,
\* which setItem stores as the text undefined.
jsonStringify(v) == IF v = "undefined" THEN "undefined" ELSE "\"" \o v \o "\""

LsRaws == {jsonStringify(v) : v \in LsValues} \cup {"null", "undefined", "{oops"}

\* JSON.parse(raw): the value, or a SyntaxError.
jsonParse(raw) ==
    IF raw = "null" THEN [threw |-> FALSE, value |-> Null]
    ELSE IF \E v \in LsValues : jsonStringify(v) = raw
    THEN [threw |-> FALSE,
          value |-> CHOOSE v \in LsValues : jsonStringify(v) = raw]
    ELSE [threw |-> TRUE, value |-> Null]

\* options?.fallback ?? null
lsFallback(s) == IF s.fallback = "undefined" THEN Null ELSE s.fallback

\* typeof window !== 'undefined' && typeof window.localStorage !== 'undefined',
\* evaluated by the render: reading window.localStorage throws when access to
\* storage is denied.
lsIsSupported(env) ==
    CASE env = "server"    -> [threw |-> FALSE, value |-> FALSE]
      [] env = "noStorage" -> [threw |-> FALSE, value |-> FALSE]
      [] env = "denied"    -> [threw |-> TRUE,  value |-> FALSE]
      [] OTHER             -> [threw |-> FALSE, value |-> TRUE]

\* get()
lsGet(s) ==
    IF ~lsIsSupported(s.env).value THEN [threw |-> FALSE, value |-> lsFallback(s)]
    ELSE IF s.env = "failing" THEN [threw |-> FALSE, value |-> lsFallback(s)]
    ELSE IF s.store[LsKey] = LsAbsent THEN [threw |-> FALSE, value |-> lsFallback(s)]
    ELSE IF jsonParse(s.store[LsKey]).threw
    THEN [threw |-> FALSE, value |-> lsFallback(s)]
    ELSE [threw |-> FALSE, value |-> jsonParse(s.store[LsKey]).value]

\* set(value): setItem is not in a try block.
lsSet(s, v) ==
    IF ~lsIsSupported(s.env).value THEN s
    ELSE IF s.env = "failing" THEN [s EXCEPT !.setThrew = TRUE]
    ELSE [s EXCEPT !.store[LsKey] = jsonStringify(v)]

\* remove()
lsRemove(s) ==
    IF ~lsIsSupported(s.env).value THEN s
    ELSE IF s.env = "failing" THEN [s EXCEPT !.setThrew = TRUE]
    ELSE [s EXCEPT !.store[LsKey] = LsAbsent]

\* clear()
lsClear(s) ==
    IF ~lsIsSupported(s.env).value THEN s
    ELSE IF s.env = "failing" THEN [s EXCEPT !.setThrew = TRUE]
    ELSE [s EXCEPT !.store = [k \in LsKeys |-> LsAbsent]]

\* The updater the model hands to update(): it alternates the two values.
lsUpdater(prev) == IF prev = "a" THEN "b" ELSE "a"

\* update(updater)
lsUpdate(s) == lsSet(s, lsUpdater(lsGet(s).value))

lsMounted(env, fallback) ==
    [env |-> env, fallback |-> fallback,
     renderThrew |-> lsIsSupported(env).threw,
     store |-> [k \in LsKeys |-> LsAbsent],
     setThrew |-> FALSE,
     got |-> [threw |-> FALSE, value |-> Null],
     lastOp |-> "mount"]

LsInit ==
    \E env \in LsEnvs, fb \in LsFallbacks : ls = lsMounted(env, fb)

LsOthers == <<asyncVars, cd, db, th, iv, to, tg, vis, lng, thm, bat, cap>>

LsGet ==
    /\ ~ls.renderThrew
    /\ ls' = [ls EXCEPT !.got = lsGet(ls), !.setThrew = FALSE, !.lastOp = "get"]
    /\ UNCHANGED LsOthers

LsSet(v) ==
    /\ ~ls.renderThrew
    /\ ls' = [lsSet([ls EXCEPT !.setThrew = FALSE], v) EXCEPT !.lastOp = "set"]
    /\ UNCHANGED LsOthers

LsRemove ==
    /\ ~ls.renderThrew
    /\ ls' = [lsRemove([ls EXCEPT !.setThrew = FALSE]) EXCEPT !.lastOp = "remove"]
    /\ UNCHANGED LsOthers

LsClear ==
    /\ ~ls.renderThrew
    /\ ls' = [lsClear([ls EXCEPT !.setThrew = FALSE]) EXCEPT !.lastOp = "clear"]
    /\ UNCHANGED LsOthers

LsUpdate ==
    /\ ~ls.renderThrew
    /\ ls' = [lsUpdate([ls EXCEPT !.setThrew = FALSE]) EXCEPT !.lastOp = "update"]
    /\ UNCHANGED LsOthers

\* Other code of the page (or another tab) writes a text under a key.
LsExternalWrite(k, raw) ==
    /\ ls.env \in {"failing", "available", "denied"}
    /\ ls' = [ls EXCEPT !.store[k] = raw, !.setThrew = FALSE, !.lastOp = "external"]
    /\ UNCHANGED LsOthers

\* The parent renders the hook with another fallback.
LsSetFallback(fb) ==
    /\ ~ls.renderThrew
    /\ fb # ls.fallback
    /\ ls' = [ls EXCEPT !.fallback = fb, !.setThrew = FALSE, !.lastOp = "render"]
    /\ UNCHANGED LsOthers

LsNext ==
    \/ LsGet
    \/ \E v \in LsValues \cup {"undefined"} : LsSet(v)
    \/ LsRemove
    \/ LsClear
    \/ LsUpdate
    \/ \E k \in LsKeys, raw \in LsRaws : LsExternalWrite(k, raw)
    \/ \E fb \in LsFallbacks : LsSetFallback(fb)

(***************************************************************************)
(*                 pageVisibilityStore, usePageVisibility                  *)
(* The module keeps one set of listeners and one function emit; every      *)
(* subscription adds emit to the document, which keeps one registration of *)
(* a (type, function) pair however often it is added.                      *)
(***************************************************************************)

VisMaxComponents == 2
VisComponents == 1..VisMaxComponents
VisStates == {"visible", "hidden"}

\* pageVisibilityStore.getSnapshot()
visGetSnapshot(s) == IF ~s.hasDocument THEN "visible" ELSE s.visibilityState

\* pageVisibilityStore.suscribe(listener), for the listener of component c
visSuscribe(s, c) ==
    IF s.hasDocument
    THEN [s EXCEPT !.listeners = @ \cup {c}, !.emitRegistered = TRUE,
                   !.unsubscribe[c] = "document"]
    ELSE [s EXCEPT !.listeners = @ \cup {c}, !.unsubscribe[c] = "plain"]

\* document.removeEventListener('visibilitychange', emit)
visRemoveEventListener(s) == [s EXCEPT !.emitRegistered = FALSE]

\* The function suscribe returned to component c.
visUnsubscribe(s, c) ==
    IF s.unsubscribe[c] = "document"
    THEN visRemoveEventListener([s EXCEPT !.listeners = @ \ {c},
                                          !.unsubscribe[c] = "none"])
    ELSE [s EXCEPT !.listeners = @ \ {c}, !.unsubscribe[c] = "none"]

\* emit(): every listener is called; the listener of useSyncExternalStore
\* reads the snapshot again.
visEmit(s) ==
    [s EXCEPT !.notified = s.listeners,
              !.snapshot = [c \in VisComponents |->
                               IF c \in s.listeners THEN visGetSnapshot(s)
                               ELSE s.snapshot[c]]]

visLoaded(hasDocument, visibilityState) ==
    [hasDocument |-> hasDocument, visibilityState |-> visibilityState,
     listeners |-> {}, emitRegistered |-> FALSE,
     unsubscribe |-> [c \in VisComponents |-> "none"],
     snapshot |-> [c \in VisComponents |-> "visible"],
     notified |-> {}, lastOp |-> "load"]

VisInit ==
    \E hd \in BOOLEAN, v \in VisStates :
        /\ (~hd => v = "visible")
        /\ vis = visLoaded(hd, v)

VisOthers == <<asyncVars, cd, db, th, iv, to, tg, ls, lng, thm, bat, cap>>

\* A component with usePageVisibility mounts: it renders with the snapshot
\* and useSyncExternalStore subscribes its listener.
VisMount(c) ==
    /\ vis.unsubscribe[c] = "none"
    /\ vis' = [visSuscribe([vis EXCEPT !.snapshot[c] = visGetSnapshot(vis)], c)
                  EXCEPT !.notified = {}, !.lastOp = "mount"]
    /\ UNCHANGED VisOthers

\* The component unmounts: useSyncExternalStore calls the unsubscribe.
VisUnmount(c) ==
    /\ vis.unsubscribe[c] # "none"
    /\ vis' = [visUnsubscribe(vis, c) EXCEPT !.notified = {}, !.lastOp = "unmount"]
    /\ UNCHANGED VisOthers

\* The document becomes hidden or visible: a visibilitychange event.
VisVisibilityChange ==
    /\ vis.hasDocument
    /\ LET s == [vis EXCEPT !.visibilityState =
                    IF @ = "visible" THEN "hidden" ELSE "visible",
                            !.notified = {}]
       IN  vis' = [(IF s.emitRegistered THEN visEmit(s) ELSE s)
                      EXCEPT !.lastOp = "visibilitychange"]
    /\ UNCHANGED VisOthers

VisNext ==
    \/ \E c \in VisComponents : VisMount(c)
    \/ \E c \in VisComponents : VisUnmount(c)
    \/ VisVisibilityChange

(***************************************************************************)
(*     systemLanguageStore, userLanguageStore, usePreferredLanguage        *)
(* The two stores share the module's set of listeners and its function     *)
(* emit. A hook instance subscribes one listener to each store.            *)
(***************************************************************************)

LngMaxComponents == 2
LngComponents == 1..LngMaxComponents
LngLanguages == {"en", "es", "fr"}
LngAbsent == "<absent>"
LngStores == {"system", "user"}

\* a ?? b
Nullish(a, b) == IF a = Null THEN b ELSE a

\* a || b on strings
OrElse(a, b) == IF a = Null \/ a = "" THEN b ELSE a

\* localStorage.getItem(storageKey)
lngGetItem(s) == IF s.stored = LngAbsent THEN Null ELSE s.stored

\* systemLanguageStore.getSnapshot()
lngSystemGetSnapshot(s) == IF ~s.hasWindow THEN "en" ELSE s.navigatorLanguage

\* systemLanguageStore.getServerSnapshot()
lngSystemGetServerSnapshot == "en"

\* userLanguageStore.getSnapshot()
lngUserGetSnapshot(s) == IF ~s.hasWindow THEN "en" ELSE Nullish(lngGetItem(s), "en")

\* userLanguageStore.getSeverSnapshot()
lngUserGetSeverSnapshot == ""

\* The values usePreferredLanguage returns for the snapshots it rendered.
lngReturn(i) ==
    [language |-> OrElse(i.userLanguage, OrElse(i.systemLanguage, "en")),
     userLanguage |-> Nullish(i.userLanguage, Null),
     systemLanguage |-> i.systemLanguage]

\* Component c renders: useSyncExternalStore reads both snapshots.
lngRender(s, c) ==
    [s EXCEPT !.inst[c] =
        IF s.hasWindow
        THEN [mounted |-> TRUE, systemLanguage |-> lngSystemGetSnapshot(s),
              userLanguage |-> lngUserGetSnapshot(s)]
        ELSE [mounted |-> TRUE, systemLanguage |-> lngSystemGetServerSnapshot,
              userLanguage |-> lngUserGetSeverSnapshot],
              !.fresh = @ \cup {c}]

\* systemLanguageStore.suscribe(listener) and userLanguageStore.suscribe(listener)
\* for the two listeners of component c.
lngSuscribe(s, c) ==
    [s EXCEPT !.listeners = @ \cup {<<c, "system">>, <<c, "user">>},
              !.emitRegistered = TRUE,
              !.onStorage = @ \cup {c}]

\* The two unsubscribe functions of component c.
lngUnsubscribe(s, c) ==
    [s EXCEPT !.listeners = @ \ {<<c, "system">>, <<c, "user">>},
              !.emitRegistered = FALSE,
              !.onStorage = @ \ {c}]

\* emit(): every listener is called; a listener whose snapshot changed
\* renders its component.
RECURSIVE lngRenderAll(_, _)
lngRenderAll(s, cs) ==
    IF cs = {} THEN s
    ELSE LET c == CHOOSE x \in cs : TRUE
         IN  lngRenderAll(lngRender(s, c), cs \ {c})

lngEmit(s) ==
    lngRenderAll([s EXCEPT !.notified = s.listeners],
                 {c \in LngComponents : \E k \in LngStores : <<c, k>> \in s.listeners})

\* userLanguageStore.setLanguage(language)
lngSetLanguage(s, l) ==
    IF ~s.hasWindow THEN s ELSE lngEmit([s EXCEPT !.stored = l])

lngLoaded(hasWindow, navigatorLanguage, stored) ==
    [hasWindow |-> hasWindow, navigatorLanguage |-> navigatorLanguage,
     stored |-> stored, listeners |-> {}, emitRegistered |-> FALSE,
     onStorage |-> {},
     inst |-> [c \in LngComponents |->
                   [mounted |-> FALSE, systemLanguage |-> "en", userLanguage |-> ""]],
     notified |-> {}, fresh |-> {}, lastOp |-> "load"]

LngInit ==
    \E hw \in BOOLEAN, l \in LngLanguages, st \in LngLanguages \cup {LngAbsent} :
        /\ (~hw => l = "en" /\ st = LngAbsent)
        /\ lng = lngLoaded(hw, l, st)

LngOthers == <<asyncVars, cd, db, th, iv, to, tg, ls, vis, thm, bat, cap>>

lngStep(s) == [s EXCEPT !.notified = {}, !.fresh = {}]

\* A component with usePreferredLanguage mounts (in the browser), or is
\* rendered on the server, where nothing subscribes.
LngMount(c) ==
    /\ ~lng.inst[c].mounted
    /\ LET r == lngRender(lngStep(lng), c)
       IN  lng' = [(IF lng.hasWindow THEN lngSuscribe(r, c) ELSE r)
                      EXCEPT !.lastOp = "mount"]
    /\ UNCHANGED LngOthers

LngUnmount(c) ==
    /\ lng.inst[c].mounted
    /\ lng' = [lngUnsubscribe(lngStep(lng), c)
                  EXCEPT !.inst[c].mounted = FALSE, !.lastOp = "unmount"]
    /\ UNCHANGED LngOthers

\* The parent renders the component again.
LngRender(c) ==
    /\ lng.inst[c].mounted
    /\ lng' = [lngRender(lngStep(lng), c) EXCEPT !.lastOp = "render"]
    /\ UNCHANGED LngOthers

\* The user changes the browser's language: a languagechange event.
LngLanguageChange(l) ==
    /\ lng.hasWindow
    /\ l # lng.navigatorLanguage
    /\ LET s == [lngStep(lng) EXCEPT !.navigatorLanguage = l]
       IN  lng' = [(IF s.emitRegistered THEN lngEmit(s) ELSE s)
                      EXCEPT !.lastOp = "languagechange"]
    /\ UNCHANGED LngOthers

\* setUserLanguage(language)
LngSetUserLanguage(l) ==
    /\ \E c \in LngComponents : lng.inst[c].mounted
    /\ lng' = [lngSetLanguage(lngStep(lng), l) EXCEPT !.lastOp = "setUserLanguage"]
    /\ UNCHANGED LngOthers

\* Another tab stores or removes the preferred language: a storage event
\* with key = storageKey, handled by every onStorage registered.
LngStorageEvent(st) ==
    /\ lng.hasWindow
    /\ st # lng.stored
    /\ LET s == [lngStep(lng) EXCEPT !.stored = st]
       IN  lng' = [(IF s.onStorage # {} THEN lngEmit(s) ELSE s)
                      EXCEPT !.lastOp = "storage"]
    /\ UNCHANGED LngOthers

LngNext ==
    \/ \E c \in LngComponents : LngMount(c)
    \/ \E c \in LngComponents : LngUnmount(c)
    \/ \E c \in LngComponents : LngRender(c)
    \/ \E l \in LngLanguages : LngLanguageChange(l)
    \/ \E l \in LngLanguages : LngSetUserLanguage(l)
    \/ \E st \in LngLanguages \cup {LngAbsent} : LngStorageEvent(st)

\* The listener stores together.
StoresNext == VisNext \/ LngNext

(***************************************************************************)
(*         systemThemeStore, userThemeStore, usePreferredTheme             *)
(* The two stores share the module's set of listeners and its function     *)
(* emit. Every suscribe makes its own onChange / onStorage function, so    *)
(* each is a registration of its own.                                      *)
(***************************************************************************)

ThmMaxComponents == 2
ThmMaxSubscribes == 3
ThmComponents == 1..ThmMaxComponents
ThmThemes == {"light", "dark", "sepia", "night"}
ThmAbsent == "<absent>"
ThmOptions == {"undefined", "sepia", "night"}

\* localStorage.getItem(storageKey)
thmGetItem(s) == IF s.stored = ThmAbsent THEN Null ELSE s.stored

\* systemThemeStore.getSnapshot()
thmSystemGetSnapshot(s) ==
    IF ~s.hasWindow THEN "light"
    ELSE IF s.prefersDark THEN "dark" ELSE "light"

\* systemThemeStore.getServerSnapshot()
thmSystemGetServerSnapshot == "light"

\* userThemeStore.getSnapshot()
thmUserGetSnapshot(s) == IF ~s.hasWindow THEN Null ELSE Nullish(thmGetItem(s), Null)

\* userThemeStore.getSeverSnapshot()
thmUserGetSeverSnapshot == Null

\* resolved = userTheme ?? systemTheme ?? 'light'
thmResolved(i) == Nullish(i.userTheme, Nullish(i.systemTheme, "light"))

\* The values usePreferredTheme returns for the snapshots it rendered.
thmReturn(i) ==
    [theme |-> thmResolved(i),
     userTheme |-> Nullish(i.userTheme, Null),
     systemTheme |-> i.systemTheme]

\* Component c renders: useSyncExternalStore reads both snapshots.
thmRender(s, c) ==
    [s EXCEPT !.inst[c] =
        IF s.hasWindow
        THEN [mounted |-> TRUE, systemTheme |-> thmSystemGetSnapshot(s),
              userTheme |-> thmUserGetSnapshot(s)]
        ELSE [mounted |-> TRUE, systemTheme |-> thmSystemGetServerSnapshot,
              userTheme |-> thmUserGetSeverSnapshot]]

\* systemThemeStore.suscribe(listener)
thmSystemSuscribe(s, c) ==
    IF s.hasWindow
    THEN [s EXCEPT !.listeners = @ \cup {<<c, "system">>},
                   !.mediaListeners = @ + 1]
    ELSE [s EXCEPT !.listeners = @ \cup {<<c, "system">>}]

\* The function systemThemeStore.suscribe returned.
thmSystemUnsubscribe(s, c) == [s EXCEPT !.listeners = @ \ {<<c, "system">>}]

\* userThemeStore.suscribe(listener)
thmUserSuscribe(s, c) ==
    IF s.hasWindow
    THEN [s EXCEPT !.listeners = @ \cup {<<c, "user">>},
                   !.storageListeners = @ \cup {c}]
    ELSE [s EXCEPT !.listeners = @ \cup {<<c, "user">>}]

\* The function userThemeStore.suscribe returned.
thmUserUnsubscribe(s, c) ==
    IF s.hasWindow
    THEN [s EXCEPT !.listeners = @ \ {<<c, "user">>},
                   !.storageListeners = @ \ {c}]
    ELSE [s EXCEPT !.listeners = @ \ {<<c, "user">>}]

RECURSIVE thmRenderAll(_, _)
thmRenderAll(s, cs) ==
    IF cs = {} THEN s
    ELSE LET c == CHOOSE x \in cs : TRUE
         IN  thmRenderAll(thmRender(s, c), cs \ {c})

\* A store that changes without telling its listeners.
thmEmitNothing(s) == s

\* emit(): every listener is called; a listener whose snapshot changed
\* renders its component.
thmEmit(s) ==
    thmRenderAll(s, {c \in ThmComponents :
                        \E k \in {"system", "user"} : <<c, k>> \in s.listeners})

\* userThemeStore.setTheme(theme)
thmSetTheme(s, t) ==
    IF ~s.hasWindow THEN s
    ELSE IF t = Null THEN thmEmit([s EXCEPT !.stored = ThmAbsent])
    ELSE thmEmit([s EXCEPT !.stored = t])

\* options?.light ?? 'light', options?.dark ?? 'dark'
thmOption(o, default) == IF o = "undefined" THEN default ELSE o

\* next = resolved === 'dark' ? light : dark
thmNext(resolved, light, dark) == IF resolved = "dark" THEN light ELSE dark

\* toggleTheme(options) of the render i of a component
thmToggleTheme(s, i, optLight, optDark) ==
    thmSetTheme(s, thmNext(thmResolved(i), thmOption(optLight, "light"),
                           thmOption(optDark, "dark")))

thmLoaded(hasWindow, prefersDark, stored) ==
    [hasWindow |-> hasWindow, prefersDark |-> prefersDark, stored |-> stored,
     listeners |-> {}, mediaListeners |-> 0, storageListeners |-> {},
     inst |-> [c \in ThmComponents |->
                   [mounted |-> FALSE, systemTheme |-> "light", userTheme |-> Null]],
     subscribes |-> 0,
     toggled |-> [before |-> "light", light |-> "light", dark |-> "dark"],
     lastOp |-> "load", lastArg |-> Null]

ThmInit ==
    \E hw \in BOOLEAN, pd \in BOOLEAN, st \in ThmThemes \cup {ThmAbsent} :
        /\ (~hw => ~pd /\ st = ThmAbsent)
        /\ thm = thmLoaded(hw, pd, st)

ThmOthers == <<asyncVars, cd, db, th, iv, to, tg, ls, vis, lng, bat, cap>>

\* A component with usePreferredTheme mounts (in the browser), or is
\* rendered on the server, where nothing subscribes.
ThmMount(c) ==
    /\ ~thm.inst[c].mounted
    /\ thm.subscribes < ThmMaxSubscribes
    /\ LET r == thmRender(thm, c)
       IN  thm' = [(IF thm.hasWindow
                    THEN thmUserSuscribe(thmSystemSuscribe(r, c), c)
                    ELSE r)
                      EXCEPT !.subscribes = @ + 1, !.lastOp = "mount",
                             !.lastArg = Null]
    /\ UNCHANGED ThmOthers

ThmUnmount(c) ==
    /\ thm.inst[c].mounted
    /\ thm' = [(IF thm.hasWindow
                THEN thmUserUnsubscribe(thmSystemUnsubscribe(thm, c), c)
                ELSE thm)
                  EXCEPT !.inst[c].mounted = FALSE, !.lastOp = "unmount",
                         !.lastArg = Null]
    /\ UNCHANGED ThmOthers

\* The system switches between light and dark: a 'change' event on every
\* media query list that has a listener.
ThmSystemChange ==
    /\ thm.hasWindow
    /\ LET s == [thm EXCEPT !.prefersDark = ~@]
       IN  thm' = [(IF s.mediaListeners > 0 THEN thmEmit(s) ELSE s)
                      EXCEPT !.lastOp = "change", !.lastArg = Null]
    /\ UNCHANGED ThmOthers

\* setUserTheme(theme)
ThmSetUserTheme(t) ==
    /\ \E c \in ThmComponents : thm.inst[c].mounted
    /\ thm' = [thmSetTheme(thm, t) EXCEPT !.lastOp = "setUserTheme", !.lastArg = t]
    /\ UNCHANGED ThmOthers

\* toggleTheme(options), called on the last render of component c
ThmToggleTheme(c, optLight, optDark) ==
    /\ thm.inst[c].mounted
    /\ thm' = [thmToggleTheme(thm, thm.inst[c], optLight, optDark)
                  EXCEPT !.toggled = [before |-> thmResolved(thm.inst[c]),
                                      light |-> thmOption(optLight, "light"),
                                      dark |-> thmOption(optDark, "dark")],
                         !.lastOp = "toggleTheme", !.lastArg = Null]
    /\ UNCHANGED ThmOthers

\* Another tab stores or removes the preferred theme: a storage event with
\* key = storageKey, handled by every onStorage registered.
ThmStorageEvent(st) ==
    /\ thm.hasWindow
    /\ st # thm.stored
    /\ LET s == [thm EXCEPT !.stored = st]
       IN  thm' = [(IF s.storageListeners # {} THEN thmEmit(s) ELSE s)
                      EXCEPT !.lastOp = "storage", !.lastArg = Null]
    /\ UNCHANGED ThmOthers

ThmNext ==
    \/ \E c \in ThmComponents : ThmMount(c)
    \/ \E c \in ThmComponents : ThmUnmount(c)
    \/ ThmSystemChange
    \/ \E t \in ThmThemes \cup {Null} : ThmSetUserTheme(t)
    \/ \E c \in ThmComponents, l \in ThmOptions \ {"night"}, d \in ThmOptions \ {"sepia"} :
           ThmToggleTheme(c, l, d)
    \/ \E st \in ThmThemes \cup {ThmAbsent} : ThmStorageEvent(st)

(***************************************************************************)
(*                           useBatteryStatus                              *)
(* Every mount runs the effect once: an effect instance has its own        *)
(* batteryManager variable and its own updateBatteryState function, so a   *)
(* registered listener is a pair (effect instance, event type).            *)
(***************************************************************************)

BatMaxMounts == 2
BatEffects == 1..BatMaxMounts
BatEvents == {"chargingchange", "levelchange", "chargingtimechange",
              "dischargingtimechange"}

BatNoStatus == [charging |-> Null, level |-> Null, chargingTime |-> Null,
                dischargingTime |-> Null]

\* The BatteryManager of the device.
BatManagers == [charging : {"true", "false"}, level : {"0.5", "1"},
                chargingTime : {"0", "Infinity"},
                dischargingTime : {"3600", "Infinity"}]

\* updateBatteryState() of effect instance e
batUpdateBatteryState(s, e) ==
    IF ~s.effect[e].batteryManager THEN s
    ELSE [s EXCEPT !.battery = IF s.mounted = e THEN s.manager ELSE @,
                   !.lateSetBattery = @ \/ s.effect[e].cleaned]

\* The effect of mount number e.
batEffect(s, e) ==
    IF ~s.isSupported THEN s
    ELSE [s EXCEPT !.effect[e].promise = "pending"]

\* The function getBattery().then(...) runs when the promise resolves.
batThen(s, e) ==
    LET s1 == [s EXCEPT !.effect[e].batteryManager = TRUE,
                        !.effect[e].promise = "resolved"]
        s2 == batUpdateBatteryState(s1, e)
    IN  [s2 EXCEPT !.listeners = @ \cup {<<e, t>> : t \in BatEvents}]

\* The cleanup of the effect of mount number e.
batCleanup(s, e) ==
    IF ~s.isSupported THEN s
    ELSE IF ~s.effect[e].batteryManager THEN [s EXCEPT !.effect[e].cleaned = TRUE]
    ELSE [s EXCEPT !.effect[e].cleaned = TRUE,
                   !.listeners = @ \ {<<e, t>> : t \in BatEvents}]

\* The device's battery changes as the event of type t reports.
batChange(m, t) ==
    CASE t = "chargingchange" ->
           [m EXCEPT !.charging = IF @ = "true" THEN "false" ELSE "true"]
      [] t = "levelchange" ->
           [m EXCEPT !.level = IF @ = "1" THEN "0.5" ELSE "1"]
      [] t = "chargingtimechange" ->
           [m EXCEPT !.chargingTime = IF @ = "0" THEN "Infinity" ELSE "0"]
      [] OTHER ->
           [m EXCEPT !.dischargingTime = IF @ = "3600" THEN "Infinity" ELSE "3600"]

RECURSIVE batDispatch(_, _, _)
batDispatch(s, t, es) ==
    IF es = {} THEN s
    ELSE LET e == CHOOSE x \in es : TRUE
         IN  batDispatch(IF <<e, t>> \in s.listeners
                         THEN batUpdateBatteryState(s, e) ELSE s,
                         t, es \ {e})

batMounted(isSupported, manager) ==
    batEffect([isSupported |-> isSupported, manager |-> manager,
               mounted |-> 1, mounts |-> 1, battery |-> BatNoStatus,
               effect |-> [e \in BatEffects |->
                              [promise |-> "none", batteryManager |-> FALSE,
                               cleaned |-> FALSE]],
               listeners |-> {}, lateSetBattery |-> FALSE, lastOp |-> "mount"], 1)

BatFull == [charging |-> "false", level |-> "1", chargingTime |-> "Infinity",
            dischargingTime |-> "Infinity"]

BatInit ==
    \E sup \in BOOLEAN, m \in BatManagers :
        /\ (~sup => m = BatFull)
        /\ bat = batMounted(sup, m)

BatOthers == <<asyncVars, cd, db, th, iv, to, tg, ls, vis, lng, thm, cap>>

\* navigator.getBattery() of effect instance e resolves.
BatResolves(e) ==
    /\ bat.effect[e].promise = "pending"
    /\ bat' = [batThen(bat, e) EXCEPT !.lastOp = "resolve"]
    /\ UNCHANGED BatOthers

\* The BatteryManager fires the event of type t.
BatEvent(t) ==
    /\ bat.isSupported
    /\ bat' = [batDispatch([bat EXCEPT !.manager = batChange(@, t)], t, BatEffects)
                  EXCEPT !.lastOp = "event"]
    /\ UNCHANGED BatOthers

\* The component unmounts.
BatUnmount ==
    /\ bat.mounted # 0
    /\ bat' = [batCleanup(bat, bat.mounted) EXCEPT !.mounted = 0, !.lastOp = "unmount"]
    /\ UNCHANGED BatOthers

\* The component is mounted again.
BatMount ==
    /\ bat.mounted = 0
    /\ bat.mounts < BatMaxMounts
    /\ bat' = [batEffect([bat EXCEPT !.mounted = bat.mounts + 1,
                                     !.mounts = @ + 1,
                                     !.battery = BatNoStatus], bat.mounts + 1)
                  EXCEPT !.lastOp = "mount"]
    /\ UNCHANGED BatOthers

BatNext ==
    \/ \E e \in BatEffects : BatResolves(e)
    \/ \E t \in BatEvents : BatEvent(t)
    \/ BatUnmount
    \/ BatMount

(***************************************************************************)
(*          Hooks over a browser capability that may be absent             *)
(* useVibration, useGeolocation, useCopyToClipboard, useSummarizer,        *)
(* useIndexedDB, useTranslator: what each imperative function does with    *)
(* the capability present and absent. An outcome is how the call ended     *)
(* (returns, throws; resolves, rejects for a promise) and with what.       *)
(***************************************************************************)

CapCapabilities == {"vibrate", "geolocation", "clipboard", "Summarizer",
                    "indexedDB", "Translator"}

CapOutcome(fn, kind, value) == [fn |-> fn, kind |-> kind, value |-> value]

\* useVibration: vibrate(pattern)
capVibrate(present) ==
    IF ~present["vibrate"] THEN CapOutcome("vibrate", "returns", "false")
    ELSE CapOutcome("vibrate", "returns", "true")

\* useVibration: cancel()
capCancel(present) == CapOutcome("cancel", "returns", "undefined")

\* useGeolocation: watchPosition(options)
capWatchPosition(present) ==
    IF ~present["geolocation"] THEN CapOutcome("watchPosition", "returns", Null)
    ELSE CapOutcome("watchPosition", "returns", "watchId")

\* useCopyToClipboard: copyToClipboard(text), an async function
capCopyToClipboard(present) ==
    IF ~present["clipboard"]
    THEN CapOutcome("copyToClipboard", "rejects", "Clipboard API not available.")
    ELSE CapOutcome("copyToClipboard", "resolves", "undefined")

\* useSummarizer: create(options), an async function
capCreate(present) ==
    IF ~present["Summarizer"]
    THEN CapOutcome("create", "rejects", "Summarizer API not supported.")
    ELSE CapOutcome("create", "resolves", "undefined")

\* useIndexedDB: open()
capOpen(present) ==
    IF ~present["indexedDB"]
    THEN CapOutcome("open", "rejects", "IndexedDB not supported.")
    ELSE CapOutcome("open", "resolves", "IDBDatabase")

\* useTranslator: translate(text), an async function; translatorRef.current
\* is null when the mount effect found no Translator.
capTranslate(present) ==
    IF ~present["Translator"]
    THEN CapOutcome("translate", "rejects",
                    "Translator API is not supported in this browser.")
    ELSE CapOutcome("translate", "resolves", "translation")

capMounted(present) ==
    [present |-> present, calls |-> 0,
     last |-> CapOutcome("none", "returns", "undefined")]

CapInit == \E present \in [CapCapabilities -> BOOLEAN] : cap = capMounted(present)

CapOthers == <<asyncVars, cd, db, th, iv, to, tg, ls, vis, lng, thm, bat>>

CapMaxCalls == 2

\* History: the outcome of the last call.
capCalled(s, outcome) == [s EXCEPT !.last = outcome, !.calls = @ + 1]

CapVibrate ==
    /\ cap.calls < CapMaxCalls
    /\ cap' = capCalled(cap, capVibrate(cap.present))
    /\ UNCHANGED CapOthers

CapCancel ==
    /\ cap.calls < CapMaxCalls
    /\ cap' = capCalled(cap, capCancel(cap.present))
    /\ UNCHANGED CapOthers

CapWatchPosition ==
    /\ cap.calls < CapMaxCalls
    /\ cap' = capCalled(cap, capWatchPosition(cap.present))
    /\ UNCHANGED CapOthers

CapCopyToClipboard ==
    /\ cap.calls < CapMaxCalls
    /\ cap' = capCalled(cap, capCopyToClipboard(cap.present))
    /\ UNCHANGED CapOthers

CapCreate ==
    /\ cap.calls < CapMaxCalls
    /\ cap' = capCalled(cap, capCreate(cap.present))
    /\ UNCHANGED CapOthers

CapOpen ==
    /\ cap.calls < CapMaxCalls
    /\ cap' = capCalled(cap, capOpen(cap.present))
    /\ UNCHANGED CapOthers

CapTranslate ==
    /\ cap.calls < CapMaxCalls
    /\ cap' = capCalled(cap, capTranslate(cap.present))
    /\ UNCHANGED CapOthers

CapNext ==
    \/ CapVibrate
    \/ CapCancel
    \/ CapWatchPosition
    \/ CapCopyToClipboard
    \/ CapCreate
    \/ CapOpen
    \/ CapTranslate

(***************************************************************************)
(*                            Specifications                               *)
(***************************************************************************)

\* A hook that a specification does not exercise stays as one mounted instance.
CdIdle == cd = cdMounted(0, 1, TRUE)
DbIdle == db = dbMounted("a", 0)
ThIdle == th = [now |-> ThMaxDelay, start |-> ThMaxDelay, lastCallRef |-> 0, delay |-> 0,
                invocations |-> 0, executions |-> <<>>, dropped |-> {}]
IvIdle == iv = [delay |-> Null, delay0 |-> Null, startOnMount |-> FALSE,
                executeImmediately |-> FALSE, hasMax |-> FALSE, maxExecutions |-> 0,
                intervalRef |-> FALSE, isActive |-> FALSE, executions |-> 0,
                calls |-> 0, lastOp |-> "mount"]

ToIdle == to = toMounted(ToNoDelay, FALSE)
TgIdle == tg = tgMounted(FALSE, FALSE)
LsIdle == ls = lsMounted("server", "undefined")
VisIdle == vis = visLoaded(FALSE, "visible")
LngIdle == lng = lngLoaded(FALSE, "en", LngAbsent)
ThmIdle == thm = thmLoaded(FALSE, FALSE, ThmAbsent)
BatIdle == bat = batMounted(FALSE, BatFull)
CapIdle == cap = capMounted([c \in CapCapabilities |-> FALSE])
FirstIdle == AsyncInit /\ CdIdle /\ DbIdle /\ ThIdle /\ IvIdle
MoreIdle == ToIdle /\ TgIdle /\ LsIdle /\ VisIdle /\ LngIdle /\ ThmIdle /\ BatIdle /\ CapIdle

InitAsync == AsyncInit /\ CdIdle /\ DbIdle /\ ThIdle /\ IvIdle /\ MoreIdle
SpecAsync == InitAsync /\ [][AsyncNext]_vars
InitCountDown == AsyncInit /\ CdInit /\ DbIdle /\ ThIdle /\ IvIdle /\ MoreIdle
SpecCountDown == InitCountDown /\ [][CdNext]_vars
InitDebounce == AsyncInit /\ CdIdle /\ DbInit /\ ThIdle /\ IvIdle /\ MoreIdle
SpecDebounce == InitDebounce /\ [][DbNext]_vars
InitThrottle == AsyncInit /\ CdIdle /\ DbIdle /\ ThInit /\ IvIdle /\ MoreIdle
SpecThrottle == InitThrottle /\ [][ThNext]_vars
InitInterval == AsyncInit /\ CdIdle /\ DbIdle /\ ThIdle /\ IvInit /\ MoreIdle
SpecInterval == InitInterval /\ [][IvNext]_vars
InitTimeout == FirstIdle /\ ToInit /\ TgIdle /\ LsIdle /\ VisIdle /\ LngIdle /\ ThmIdle /\ BatIdle /\ CapIdle
SpecTimeout == InitTimeout /\ [][ToNext]_vars
InitToggle == FirstIdle /\ ToIdle /\ TgInit /\ LsIdle /\ VisIdle /\ LngIdle /\ ThmIdle /\ BatIdle /\ CapIdle
SpecToggle == InitToggle /\ [][TgNext]_vars
InitLocalStorage == FirstIdle /\ ToIdle /\ TgIdle /\ LsInit /\ VisIdle /\ LngIdle /\ ThmIdle /\ BatIdle /\ CapIdle
SpecLocalStorage == InitLocalStorage /\ [][LsNext]_vars
InitStores == FirstIdle /\ ToIdle /\ TgIdle /\ LsIdle /\ VisInit /\ LngInit /\ ThmIdle /\ BatIdle /\ CapIdle
SpecStores == InitStores /\ [][StoresNext]_vars
InitLanguage == FirstIdle /\ ToIdle /\ TgIdle /\ LsIdle /\ VisIdle /\ LngInit /\ ThmIdle /\ BatIdle /\ CapIdle
SpecLanguage == InitLanguage /\ [][LngNext]_vars
InitTheme == FirstIdle /\ ToIdle /\ TgIdle /\ LsIdle /\ VisIdle /\ LngIdle /\ ThmInit /\ BatIdle /\ CapIdle
SpecTheme == InitTheme /\ [][ThmNext]_vars
InitBattery == FirstIdle /\ ToIdle /\ TgIdle /\ LsIdle /\ VisIdle /\ LngIdle /\ ThmIdle /\ BatInit /\ CapIdle
SpecBattery == InitBattery /\ [][BatNext]_vars
InitCapability == FirstIdle /\ ToIdle /\ TgIdle /\ LsIdle /\ VisIdle /\ LngIdle /\ ThmIdle /\ BatIdle /\ CapInit
SpecCapability == InitCapability /\ [][CapNext]_vars

(***************************************************************************)
(*                        Claims: useAsyncState                            *)
(***************************************************************************)

\* The requests in progress that no later execute, reset or unmount cancelled.
LiveRequests == InProgress \ cancelled

\* C1: when a request of a mounted hook finally fails with a non-abort error
\* (HTTP error, network error or timeout, no retry left), the state becomes
\* isError = true, error = that error, isLoading = false, isSuccess = false,
\* and execute resolves to null.
C1_FinalFailureIsStored ==
    [][\A r \in Requests :
         (/\ mounted
          /\ r \notin cancelled
          /\ req[r].pc # "done"
          /\ req'[r].pc = "done"
          /\ req'[r].outcome \in NonAbortErrors)
         => (/\ state'.isError
             /\ state'.error = req'[r].outcome
             /\ ~state'.isLoading
             /\ ~state'.isSuccess
             /\ req'[r].result = Null)]_vars

\* C2: while the hook is mounted, isLoading is true exactly when a request
\* started by execute or retry (and not cancelled since) is in progress.
C2_IsLoadingIffInProgress ==
    mounted => (state.isLoading <=> LiveRequests # {})

\* C3: after a later execute, a reset or the unmount, an earlier request
\* that is still fetching has its signal aborted, and it issues no further
\* fetch attempt (its attempt number does not change any more).
C3_CancelledRequestsStop ==
    /\ [](\A r \in cancelled : req[r].pc = "fetching" => CtrlOf(r) \in aborted)
    /\ [][\A r \in cancelled : req'[r].attempt = req[r].attempt]_vars

(***************************************************************************)
(*                         Claims: useCountDown                            *)
(***************************************************************************)

FairSpecCountDown == SpecCountDown /\ WF_vars(CdTick) /\ WF_vars(CdAdvance)

\* C4: in a countdown that was never reset, onComplete has been invoked at
\* most once, and exactly once when count is 0, whatever ticks, renders,
\* pause and resume calls occurred.
C4_OnCompleteExactlyOnce ==
    ~cd.resetSeen =>
        (cd.completeCalls <= 1 /\ (cd.count = 0 <=> cd.completeCalls = 1))

\* C5: count is never negative, no step other than a reset increases it,
\* and a countdown that is not paused gets to count = 0 (unless it is paused
\* or reset first).
C5_CountDecreasesToZero ==
    /\ [](cd.count >= 0)
    /\ [][cd'.lastOp # "reset" => cd'.count <= cd.count]_vars
    /\ ((~cd.isPaused /\ cd.lastOp # "reset")
            ~> (cd.count = 0 \/ cd.isPaused \/ cd.lastOp = "reset"))

(***************************************************************************)
(*                       Claims: useDebouncedState                         *)
(***************************************************************************)

ThExecutedIds == {th.executions[i].id : i \in 1..Len(th.executions)}

\* C7: any two executions of the callback are at least delay apart (the
\* delay in force at the later one); the first invocation is executed; and
\* every invocation is either executed at the time it is made or dropped,
\* and a dropped one is never executed.
C7_ThrottleSpacing ==
    /\ \A i, j \in 1..Len(th.executions) :
           i < j => th.executions[j].at - th.executions[i].at >= th.executions[j].delay
    /\ th.invocations >= 1 => (Len(th.executions) >= 1 /\ th.executions[1].id = 1)
    /\ ThExecutedIds \cap th.dropped = {}
    /\ ThExecutedIds \cup th.dropped = 1..th.invocations
    /\ \A i \in 1..Len(th.executions) : th.executions[i].at <= th.now

\* C7, witness: two executions, and an invocation dropped between them.
C7_Witness ==
    /\ Len(th.executions) >= 2
    /\ \E d \in th.dropped : th.executions[1].id < d /\ d < th.executions[2].id
    /\ th.delay > 0

(***************************************************************************)
(*                        Claims: useIntervalSafe                          *)
(***************************************************************************)

\* C8: with maxExecutions = N, the callback has been executed at most N
\* times since the last start, and once it has been executed N times no
\* timer is scheduled and isActive is false.
C8_AtMostMaxExecutions ==
    iv.hasMax =>
        /\ iv.calls <= iv.maxExecutions
        /\ iv.calls >= iv.maxExecutions => (~iv.intervalRef /\ ~iv.isActive)

\* C9: executionCount equals the number of executions of the callback since
\* the last start or reset.
C9_ExecutionCountIsCalls == iv.executions = iv.calls

\* reset() is expected to leave the interval running: a delay is set, and
\* the limit, if any, allows more than the immediate execution.
IvCanRun == iv.delay # Null /\ (iv.hasMax => iv.maxExecutions >= 2)

\* C10: after reset() the interval is active, a timer is scheduled and the
\* count has restarted (0, or 1 after an immediate execution); after
\* cancel() no timer is scheduled and isActive is false; and while no timer
\* is scheduled the callback is executed only by a start or a reset.
C10_ResetRestartsCancelStops ==
    /\ []((iv.lastOp = "reset" /\ IvCanRun) =>
            (/\ iv.isActive
             /\ iv.intervalRef
             /\ iv.executions = (IF iv.executeImmediately THEN 1 ELSE 0)))
    /\ [](iv.lastOp = "cancel" => (~iv.intervalRef /\ ~iv.isActive))
    /\ [][(~iv.intervalRef /\ iv'.lastOp \notin {"start", "reset", "setDelay"})
              => iv'.calls = iv.calls]_vars

(***************************************************************************)
(*                          Claims: useTimeout                             *)
(***************************************************************************)

\* C11: every start() or reset() with a delay that is not null leads to
\* exactly one execution of the callback, delay after the most recent
\* start/reset: while the execution is owed, exactly the timer of timeoutRef
\* is pending and due at that time; at most one timer is pending; after a
\* cancel(), and after a start with delay = null, no timer is pending; and the
\* callback only runs when an execution is owed, delay after the start.
C11_OneExecutionPerStart ==
    to.mounted =>
        /\ Cardinality(to.timers) <= 1
        /\ to.owed => \E t \in to.timers :
                          /\ t.id = to.timeoutRef
                          /\ t.fireIn + to.sinceStart = to.startDelay
        /\ ~to.owed => to.timers = {}
        /\ to.lastOp = "fire" => to.firedOwed /\ to.firedAfter = to.startDelay
        /\ (to.lastOp \in {"start", "reset"} /\ toDelayIsNull(to.delay))
               => to.timers = {}

(***************************************************************************)
(*                           Claims: useToggle                             *)
(***************************************************************************)

\* C12: status starts at defaultValue (false when omitted) and every call
\* of handleToggle flips it: once React has rendered the n calls made so far,
\* status is defaultValue when n is even and its negation when n is odd.
C12_StatusIsParityOfCalls ==
    LET d == IF tg.hasDefault THEN tg.defaultValue ELSE FALSE
    IN  tg.queue = 0 => tg.status = (IF tg.calls % 2 = 0 THEN d ELSE ~d)

\* An odd number of calls was rendered, on a hook mounted with defaultValue
\* true and rendered later without a defaultValue: status is false.
C12_Witness ==
    /\ tg.queue = 0
    /\ tg.calls >= 3 /\ tg.calls % 2 = 1
    /\ tg.status = ~tg.defaultValue
    /\ tg.hasDefault /\ tg.defaultValue
    /\ ~tg.propHasDefault

(***************************************************************************)
(*                        Claims: useLocalStorage                          *)
(***************************************************************************)

\* The text stored under the key is the JSON text of a value.
LsParses(raw) == raw = "null" \/ \E v \in LsValues : raw = "\"" \o v \o "\""

\* C13: get() is there to be called whatever the environment, it never
\* throws, and it returns the configured fallback (null when none is
\* configured) when the key is absent, when the stored text is not JSON, or
\* when localStorage is not available; otherwise the parsed stored value.
C13_GetReturnsFallback ==
    LET fb == IF ls.fallback = "undefined" THEN Null ELSE ls.fallback
        raw == ls.store[LsKey]
    IN  /\ ~ls.renderThrew
        /\ ls.lastOp = "get" =>
             /\ ~ls.got.threw
             /\ ls.got.value =
                  (IF ls.env # "available" \/ raw = LsAbsent \/ ~LsParses(raw)
                   THEN fb
                   ELSE IF raw = "null" THEN Null
                   ELSE CHOOSE v \in LsValues : raw = "\"" \o v \o "\"")

(***************************************************************************)
(*           Claims: pageVisibilityStore, systemLanguageStore              *)
(***************************************************************************)

\* C14: every visibilitychange event invokes every listener subscribed to
\* pageVisibilityStore, and every languagechange event every listener
\* subscribed to systemLanguageStore, whatever other listeners subscribed
\* and unsubscribed before.
C14_EverySubscriberIsNotified ==
    /\ vis.lastOp = "visibilitychange" =>
         \A c \in VisComponents : vis.unsubscribe[c] # "none" => c \in vis.notified
    /\ lng.lastOp = "languagechange" =>
         \A c \in LngComponents : lng.inst[c].mounted => <<c, "system">> \in lng.notified

(***************************************************************************)
(*                     Claims: usePreferredLanguage                        *)
(***************************************************************************)

\* C20: a hook instance that has just rendered in the browser returns as
\* language the stored user language when there is one, else the system
\* language (navigator.language); when no user language is stored,
\* userLanguage is null and language equals systemLanguage.
C20_LanguageResolution ==
    \A c \in lng.fresh :
        lng.hasWindow =>
            LET r == lngReturn(lng.inst[c])
            IN  /\ r.systemLanguage = lng.navigatorLanguage
                /\ lng.stored # LngAbsent => r.language = lng.stored
                /\ lng.stored = LngAbsent =>
                       /\ r.userLanguage = Null
                       /\ r.language = r.systemLanguage

(***************************************************************************)
(*                      Claims: usePreferredTheme                          *)
(***************************************************************************)

\* The components subscribed to the theme stores.
ThmSubscribers == {c \in ThmComponents : thm.inst[c].mounted}

\* C15: the browser listeners that suscribe registers are removed by the
\* unsubscribe it returns: the number of matchMedia 'change' listeners and of
\* window 'storage' listeners never exceeds the number of subscribers (and
\* is 0 when there is none).
C15_ListenersAreRemoved ==
    /\ thm.mediaListeners <= Cardinality(ThmSubscribers)
    /\ Cardinality(thm.storageListeners) <= Cardinality(ThmSubscribers)

\* C18: in the browser every mounted instance reports as theme the stored
\* user theme when there is one and the system theme otherwise; after
\* setUserTheme(t) every instance reports userTheme = t and theme = t, after
\* setUserTheme(null) userTheme = null and theme = systemTheme.
C18_ThemeResolution ==
    thm.hasWindow =>
        \A c \in ThmSubscribers :
            LET r == thmReturn(thm.inst[c])
                system == IF thm.prefersDark THEN "dark" ELSE "light"
            IN  /\ r.systemTheme = system
                /\ r.theme = (IF thm.stored # ThmAbsent THEN thm.stored ELSE system)
                /\ thm.lastOp = "setUserTheme" =>
                       /\ r.userTheme = thm.lastArg
                       /\ r.theme = (IF thm.lastArg = Null THEN r.systemTheme
                                     ELSE thm.lastArg)

\* Two instances are mounted on a dark system and setUserTheme('sepia') was
\* called: both report sepia.
C18_Witness ==
    /\ thm.hasWindow /\ thm.prefersDark
    /\ ThmSubscribers = ThmComponents
    /\ thm.lastOp = "setUserTheme" /\ thm.lastArg = "sepia"
    /\ \A c \in ThmComponents : thmReturn(thm.inst[c]).theme = "sepia"

\* C19: toggleTheme(options) called when the current theme is one of
\* options.light and options.dark (default 'light' and 'dark') switches to
\* the other one, also for custom theme names.
C19_ToggleSwitchesToTheOther ==
    (/\ thm.hasWindow
     /\ thm.lastOp = "toggleTheme"
     /\ thm.toggled.before \in {thm.toggled.light, thm.toggled.dark})
        => \A c \in ThmSubscribers :
               thmReturn(thm.inst[c]).theme =
                   (IF thm.toggled.before = thm.toggled.light
                    THEN thm.toggled.dark ELSE thm.toggled.light)

(***************************************************************************)
(*                        Claims: useBatteryStatus                         *)
(***************************************************************************)

\* C16: once a mount of the component has been unmounted, none of its four
\* listeners is registered on the BatteryManager and it does not set the
\* battery state any more, also when it was unmounted before the promise of
\* navigator.getBattery() resolved.
C16_NoListenersAfterUnmount ==
    /\ \A e \in BatEffects :
           bat.effect[e].cleaned => \A t \in BatEvents : <<e, t>> \notin bat.listeners
    /\ ~bat.lateSetBattery

(***************************************************************************)
(*                   Claims: absent browser capability                     *)
(***************************************************************************)

\* The capability that each imperative function wraps.
CapOf(fn) ==
    CASE fn \in {"vibrate", "cancel"} -> "vibrate"
      [] fn = "watchPosition" -> "geolocation"
      [] fn = "copyToClipboard" -> "clipboard"
      [] fn = "create" -> "Summarizer"
      [] fn = "open" -> "indexedDB"
      [] OTHER -> "Translator"

\* C17: with the wrapped capability absent, a call of an imperative function
\* neither throws nor rejects; vibrate returns false and watchPosition null.
C17_AbsentCapabilityIsSafe ==
    (cap.last.fn # "none" /\ ~cap.present[CapOf(cap.last.fn)]) =>
        /\ cap.last.kind \in {"returns", "resolves"}
        /\ cap.last.fn = "vibrate" => cap.last.value = "false"
        /\ cap.last.fn = "watchPosition" => cap.last.value = Null

(***************************************************************************)
(*                 Claims: useAsyncState, retries and reset                *)
(***************************************************************************)

\* C21: with config.retries = N a request whose attempts fail with non-abort
\* errors ends after N + 1 attempts, each further attempt starting when the
\* retryDelay wait of the one before is over; onError is invoked at most
\* once, and only when the request has ended in failure; and a request that
\* was aborted (by a later execute, a reset or the unmount) makes no further
\* attempt.
C21_RetriesThenOneOnError ==
    /\ [](\A r \in Requests :
            /\ req[r].attempt <= req[r].retries + 1
            /\ req[r].onErrorCalls <= 1
            /\ req[r].onErrorCalls = 1 =>
                   req[r].pc = "done" /\ req[r].outcome # "ok"
            /\ (req[r].pc = "done" /\ req[r].outcome \in NonAbortErrors) =>
                   /\ req[r].attempt = req[r].retries + 1
                   /\ req[r].onErrorCalls = 1)
    /\ [][\A r \in Requests :
            (req[r].attempt > 0 /\ req'[r].attempt > req[r].attempt) =>
                /\ req[r].pc = "waiting"
                /\ r \notin cancelled]_vars

\* C22: after reset() and until the next execute or retry, the state is the
\* initial one (data = initialData, error = null, isLoading = isSuccess =
\* isError = false, isIdle = true), but for the data a mutate call has set,
\* also when a request was in flight at the time of the reset.
\* lastRequestRef.current is null exactly from a reset (or the mount) to the
\* next execute, so that a retry() in between returns null.
C22_ResetStateStays ==
    (mounted /\ lastRequestRef = NoLastRequest) =>
        /\ [state EXCEPT !.data = initialData] = InitialState
        /\ state.data \in {initialData, "mutated"}

(***************************************************************************)
(*                Claims: useCountDown, reset, pause and resume            *)
(***************************************************************************)

\* C23: right after reset(newEndTime?) isPaused is false and count is
\* max(target - now, 0), and the countdown is running again: its interval
\* timer is set, so that ticks occur, and once no further reset is called
\* count gets to 0 and onComplete is invoked unless the countdown is paused;
\* this whether reset was called while running, while paused or after
\* completion.
C23_ResetRestarts ==
    /\ [](cd.lastOp = "reset" =>
            /\ ~cd.isPaused
            /\ cd.count = Max(cd.endIn, 0)
            /\ cd.intervalIdRef \/ (cd.count = 0 /\ cd.completeCalls >= 1))
    /\ <>[](cd.lastOp # "reset") =>
           ((cd.lastOp = "reset")
               ~> (cd.isPaused \/ (cd.count = 0 /\ cd.completeCalls >= 1)))

\* C24: while the countdown is paused there is no timer and no step but a
\* reset changes count or invokes onTick or onComplete; after resume() the
\* countdown is running from the count it had when paused, whatever time
\* passed during the pause, and it completes when exactly that count of
\* time has passed since the resume.
C24_PauseHoldsResumeContinues ==
    /\ [](/\ cd.isPaused => ~cd.intervalIdRef
          /\ cd.resumed = "running" =>
                /\ ~cd.isPaused /\ cd.intervalIdRef
                /\ cd.endIn = Max(cd.resumeCount - cd.sinceResume, 0)
          /\ cd.resumed = "done" => cd.sinceResume = cd.resumeCount)
    /\ [][(cd.isPaused /\ cd'.isPaused) =>
            /\ cd'.count = cd.count
            /\ cd'.tickCalls = cd.tickCalls
            /\ cd'.completeCalls = cd.completeCalls]_vars

====
